---- MODULE Spec2Model ----
(***************************************************************************)
(* Model of ztrehlk/Econ-Trends (src/main.py and its older copy            *)
(* "main (defunct).py"): the polars pipelines that clean FRED series,      *)
(* build the daily stock table, summarise daily columns per month and      *)
(* outer-join the pieces on the date key.                                  *)
(*                                                                         *)
(* Every method of the repository is a pure function of what it is given   *)
(* (a table, or the providers' responses), so each has its own             *)
(* specification: Init draws the call's arguments, the one action runs     *)
(* the whole method and records how the call ended in ret.                 *)
(*                                                                         *)
(* Data representation                                                     *)
(*   cell      <<>> is polars' null, <<v>> a present value                 *)
(*   date      <<year, month, day>>                                        *)
(*   number    a float, kept exactly as a reduced fraction <<num, den>>    *)
(*             (the rounding of Float32/Float64 is not modelled)           *)
(*   string    a sequence of one-character strings                         *)
(*   table     [columns |-> sequence of names, rows |-> sequence of rows], *)
(*             a row being a function from column name to cell             *)
(***************************************************************************)
EXTENDS Integers, Sequences, FiniteSets, TLC

VARIABLES
    call,   \* the method called and its arguments (never changes)
    ret     \* how the call ended: pending, returned a table, or raised

vars == <<call, ret>>

-----------------------------------------------------------------------------
(* Bounds of the model *)

MaxRows == 3          \* rows of the table given to day_to_month_column
MaxObservations == 2  \* observation dates of a FRED series
MaxTables == 3        \* tables given to the join
MaxRecords == 2       \* raw price records of a ticker

-----------------------------------------------------------------------------
(* Cells *)

None == <<>>
Some(v) == <<v>>
IsNull(c) == c = <<>>
Val(c) == c[1]

RECURSIVE SeqsUpTo(_, _)
SeqsUpTo(S, n) ==
    IF n = 0 THEN {<<>>}
    ELSE LET shorter == SeqsUpTo(S, n - 1)
         IN shorter \cup {Append(s, x) : s \in {t \in shorter : Len(t) = n - 1}, x \in S}

RemoveAt(s, i) == SubSeq(s, 1, i - 1) \o SubSeq(s, i + 1, Len(s))

Pending == [kind |-> "pending"]
Returned(t) == [kind |-> "ok", table |-> t]
Raised(e) == [kind |-> "raise", error |-> e]

-----------------------------------------------------------------------------
(* Numbers: exact fractions <<num, den>> with den > 0, reduced; the cast of a
   text can also give inf, -inf and nan, held with den = 0 *)

Abs(n) == IF n < 0 THEN -n ELSE n

RECURSIVE GCD(_, _)
GCD(a, b) == IF b = 0 THEN a ELSE GCD(b, a % b)

Frac(n, d) ==
    LET g == GCD(Abs(n), d)
    IN IF n = 0 THEN <<0, 1>> ELSE <<n \div g, d \div g>>

Num(n) == <<n, 1>>
FAdd(a, b) == Frac(a[1] * b[2] + b[1] * a[2], a[2] * b[2])
FSub(a, b) == Frac(a[1] * b[2] - b[1] * a[2], a[2] * b[2])
FMul(a, b) == Frac(a[1] * b[1], a[2] * b[2])
FDivInt(a, n) == Frac(a[1], a[2] * n)
FLeq(a, b) == a[1] * b[2] <= b[1] * a[2]
FLt(a, b) == a[1] * b[2] < b[1] * a[2]

-----------------------------------------------------------------------------
(* Dates *)

DateLeq(a, b) ==
    \/ a[1] < b[1]
    \/ a[1] = b[1] /\ a[2] < b[2]
    \/ a[1] = b[1] /\ a[2] = b[2] /\ a[3] <= b[3]

\* pl.col("date").dt.strftime("%Y-%m"): the text holds the year and the month
\* and nothing of the day; null stays null.
StrftimeYM(c) == IF IsNull(c) THEN None ELSE Some(<<Val(c)[1], Val(c)[2]>>)

\* .str.to_date("%Y-%m"): polars' parser starts from day 1 and the format
\* sets year and month only.
ToDateYM(c) == IF IsNull(c) THEN None ELSE Some(<<Val(c)[1], Val(c)[2], 1>>)

MonthStart(c) == ToDateYM(StrftimeYM(c))

-----------------------------------------------------------------------------
(* Table operations of polars used by the repository *)

Table(cols, rows) == [columns |-> cols, rows |-> rows]

ColSet(t) == {t.columns[i] : i \in 1..Len(t.columns)}

HasColumns(t, cols) == \A i \in 1..Len(cols) : cols[i] \in ColSet(t)

\* df[[...]] / select: the named columns, in the order asked for.
SelectColumns(t, cols) ==
    Table(cols,
          [i \in 1..Len(t.rows) |->
              [c \in {cols[k] : k \in 1..Len(cols)} |-> t.rows[i][c]]])

\* Sort order of a date key: nulls first (nulls_last defaults to False).
KeyLeq(a, b) ==
    \/ IsNull(a)
    \/ ~IsNull(b) /\ DateLeq(Val(a), Val(b))

\* A mutant: the rows are left in the order given.
SortArrangementsUnsorted(rows, by) == {rows}

\* .sort(by=...): maintain_order defaults to False, so rows with equal keys
\* may come out in any order: the set of all sorted arrangements.
RECURSIVE SortArrangements(_, _)
SortArrangements(rows, by) ==
    IF rows = <<>> THEN {<<>>}
    ELSE LET n == Len(rows)
             least == {i \in 1..n : \A j \in 1..n : KeyLeq(rows[i][by], rows[j][by])}
         IN UNION {{<<rows[i]>> \o rest : rest \in SortArrangements(RemoveAt(rows, i), by)}
                   : i \in least}

\* A mutant: only a null key drops a row.
DropNullsRowsKeyOnly(rows, colset) ==
    SelectSeq(rows, LAMBDA r : ~IsNull(r["date"]))

\* .drop_nulls(): drops every row holding a null in any column.
DropNullsRows(rows, colset) ==
    SelectSeq(rows, LAMBDA r : \A c \in colset : ~IsNull(r[c]))

\* The distinct keys of a column, in order of first appearance.
RECURSIVE DistinctKeys(_, _)
DistinctKeys(rows, by) ==
    IF rows = <<>> THEN <<>>
    ELSE <<rows[1][by]>> \o
         DistinctKeys(SelectSeq(Tail(rows), LAMBDA r : r[by] /= rows[1][by]), by)

\* The cells of one column, in row order.
Column(rows, c) == [i \in 1..Len(rows) |-> rows[i][c]]

\* The present (non-null) values of a sequence of cells, in order.
Present(cells) ==
    LET kept == SelectSeq(cells, LAMBDA c : ~IsNull(c))
    IN [i \in 1..Len(kept) |-> Val(kept[i])]

-----------------------------------------------------------------------------
(* polars aggregations: each ignores nulls, and is null over no values *)

RECURSIVE InsertSorted(_, _)
InsertSorted(x, s) ==
    IF s = <<>> THEN <<x>>
    ELSE IF FLeq(x, s[1]) THEN <<x>> \o s
    ELSE <<s[1]>> \o InsertSorted(x, Tail(s))

RECURSIVE SortNumbers(_)
SortNumbers(s) == IF s = <<>> THEN <<>> ELSE InsertSorted(s[1], SortNumbers(Tail(s)))

RECURSIVE SumNumbers(_)
SumNumbers(s) == IF s = <<>> THEN Num(0) ELSE FAdd(s[1], SumNumbers(Tail(s)))

\* Expr.first() / Expr.last(): the first / last cell of the group as it is.
AggFirst(cells) == IF cells = <<>> THEN None ELSE cells[1]
AggLast(cells) == IF cells = <<>> THEN None ELSE cells[Len(cells)]

AggMin(cells) ==
    LET v == Present(cells) IN IF v = <<>> THEN None ELSE Some(SortNumbers(v)[1])
AggMax(cells) ==
    LET v == Present(cells) IN IF v = <<>> THEN None ELSE Some(SortNumbers(v)[Len(v)])
AggMean(cells) ==
    LET v == Present(cells)
    IN IF v = <<>> THEN None ELSE Some(FDivInt(SumNumbers(v), Len(v)))
\* Expr.sum() of a group: the sum of the present values.
AggSum(cells) == Some(SumNumbers(Present(cells)))

\* quantile with interpolation "linear": position q*(n-1) over the sorted
\* values, interpolated between the two ranks around it. q = qn/qd.
QuantileLinear(sorted, qn, qd) ==
    LET n == Len(sorted)
        base == (qn * (n - 1)) \div qd
        rem == (qn * (n - 1)) % qd
        lower == sorted[base + 1]
    IN IF rem = 0 THEN lower
       ELSE FAdd(lower, FMul(Frac(rem, qd), FSub(sorted[base + 2], lower)))

\* Expr.median() is the linear quantile at 0.5.
AggMedian(cells) ==
    LET v == Present(cells)
    IN IF v = <<>> THEN None ELSE Some(QuantileLinear(SortNumbers(v), 1, 2))

\* Expr.quantile(q) is called without an interpolation argument, and polars'
\* default is "nearest": one element of the sorted values, never a blend of
\* two. Which element depends on the polars release the program runs on:
\*   "round"  index round(q*(n-1)), halves away from zero
\*   "floor"  index floor(q*n), clamped to n-1
NearestRules == {"round", "floor"}

\* A mutant: the rank is counted from the largest value down.
NearestIndexFromTop(rule, qn, qd, n) ==
    IF rule = "round" THEN (2 * (qd - qn) * (n - 1) + qd) \div (2 * qd)
    ELSE IF ((qd - qn) * n) \div qd > n - 1 THEN n - 1 ELSE ((qd - qn) * n) \div qd

NearestIndex(rule, qn, qd, n) ==
    IF rule = "round" THEN (2 * qn * (n - 1) + qd) \div (2 * qd)
    ELSE IF (qn * n) \div qd > n - 1 THEN n - 1 ELSE (qn * n) \div qd

AggQuantile(cells, qn, qd, rule) ==
    LET v == Present(cells)
    IN IF v = <<>> THEN None
       ELSE Some(SortNumbers(v)[NearestIndex(rule, qn, qd, Len(v)) + 1])

-----------------------------------------------------------------------------
(* Transformations.day_to_month_column *)

StatPrefixes ==
    <<"first_", "last_", "min_", "max_", "mean_", "median_", "sum_",
      "quantile_25_", "quantile_75_">>

MonthlyColumns(col_name) ==
    <<"date">> \o [i \in 1..Len(StatPrefixes) |-> StatPrefixes[i] \o col_name]

\* One row of group_by("date").agg(...): the key and the nine statistics of
\* the group's cells.
AggRow(key, cells, col_name, rule) ==
    [c \in {MonthlyColumns(col_name)[i] : i \in 1..10} |->
        CASE c = "date" -> key
          [] c = "first_" \o col_name -> AggFirst(cells)
          [] c = "last_" \o col_name -> AggLast(cells)
          [] c = "min_" \o col_name -> AggMin(cells)
          [] c = "max_" \o col_name -> AggMax(cells)
          [] c = "mean_" \o col_name -> AggMean(cells)
          [] c = "median_" \o col_name -> AggMedian(cells)
          [] c = "sum_" \o col_name -> AggSum(cells)
          [] c = "quantile_25_" \o col_name -> AggQuantile(cells, 1, 4, rule)
          [] c = "quantile_75_" \o col_name -> AggQuantile(cells, 3, 4, rule)]

\* group_by("date").agg(...): one row per distinct key; the rows of a group
\* keep their order.
GroupByAgg(rows, col_name, rule) ==
    LET keys == DistinctKeys(rows, "date")
    IN [k \in 1..Len(keys) |->
           AggRow(keys[k],
                  Column(SelectSeq(rows, LAMBDA r : r["date"] = keys[k]), col_name),
                  col_name, rule)]

\* with_columns(pl.col("date").dt.strftime("%Y-%m").str.to_date("%Y-%m"))
TruncateToMonth(rows, col_name) ==
    [i \in 1..Len(rows) |->
        [c \in {"date", col_name} |->
            IF c = "date" THEN MonthStart(rows[i]["date"]) ELSE rows[i][c]]]

\* day_to_month_column on a table that has the column: every way the
\* unstable sort can order equal dates, under either rule of the default
\* quantile.
MonthlySummaries(df, col_name) ==
    LET day_col == SelectColumns(df, <<"date", col_name>>)
    IN UNION {UNION {{Returned(Table(MonthlyColumns(col_name), out))
                      : out \in SortArrangements(
                            GroupByAgg(
                                DropNullsRows(TruncateToMonth(sorted, col_name),
                                              {"date", col_name}),
                                col_name, rule),
                            "date")}
                     : sorted \in SortArrangements(day_col.rows, "date")}
              : rule \in NearestRules}

\* A mutant: an unknown column is answered with an empty monthly table.
day_to_month_column_lenient(df, col_name) ==
    IF ~HasColumns(df, <<"date", col_name>>)
    THEN {Returned(Table(MonthlyColumns(col_name), <<>>))}
    ELSE MonthlySummaries(df, col_name)

\* The outcomes of day_to_month_column(df, col_name): df[["date", col_name]]
\* raises when col_name is no column of df, and nothing catches it.
day_to_month_column(df, col_name) ==
    IF ~HasColumns(df, <<"date", col_name>>) THEN {Raised("ColumnNotFoundError")}
    ELSE MonthlySummaries(df, col_name)

-----------------------------------------------------------------------------
(* Specification of day_to_month_column: any small table, any column name *)

\* The rows drawn: every value on three days of January 2024, a present and a
\* missing value on one day of February, and a row without a date.
Dates == {<<2024, 1, 5>>, <<2024, 1, 15>>, <<2024, 1, 20>>, <<2024, 2, 5>>}
ValueCells == {None} \cup {Some(Num(v)) : v \in {10, 20, 30}}
DailyRows ==
    {[date |-> Some(<<2024, 1, d>>), value |-> v] : d \in {5, 15, 20}, v \in ValueCells}
    \cup {[date |-> Some(<<2024, 2, 5>>), value |-> v] : v \in {None, Some(Num(10))}}
    \cup {[date |-> None, value |-> Some(Num(10))]}
ColumnNames == {"value", "volume"}

InitAgg ==
    /\ call \in {[fn |-> "day_to_month_column",
                  df |-> Table(<<"date", "value">>, rows),
                  col_name |-> c]
                 : rows \in SeqsUpTo(DailyRows, MaxRows), c \in ColumnNames}
    /\ ret = Pending

DayToMonthColumn ==
    /\ call.fn = "day_to_month_column"
    /\ ret = Pending
    /\ ret' \in day_to_month_column(call.df, call.col_name)
    /\ UNCHANGED call

NextAgg == DayToMonthColumn

SpecAgg == InitAgg /\ [][NextAgg]_vars

-----------------------------------------------------------------------------
(* The join of the tables: left.join(right, on='date', how='outer_coalesce') *)

\* A mutant: a right column keeps its name whatever the left table holds.
JoinedNameKept(left, name) == name

\* The name a non-key column of the right table gets: polars appends
\* "_right" to a name the left table already has.
JoinedName(left, name) ==
    IF name \in ColSet(left) THEN name \o "_right" ELSE name

\* The non-key columns of a table, in order.
ValueColumns(t) == SelectSeq(t.columns, LAMBDA c : c /= "date")

JoinedColumns(left, right) ==
    LET rc == ValueColumns(right)
    IN left.columns \o [i \in 1..Len(rc) |-> JoinedName(left, rc[i])]

HasDuplicates(names) ==
    \E i, j \in 1..Len(names) : i < j /\ names[i] = names[j]

\* Rows match on equal, non-null keys (join_nulls defaults to False).
KeysMatch(l, r) == ~IsNull(l["date"]) /\ l["date"] = r["date"]

\* The row made of a left row and a right row; either may be absent (<<>>),
\* its columns then being null and the key taken from the other (coalesce).
JoinedRow(left, right, l, r) ==
    LET rc == ValueColumns(right)
    IN [c \in {JoinedColumns(left, right)[i] : i \in 1..Len(JoinedColumns(left, right))} |->
           IF c = "date" THEN (IF l /= <<>> THEN Val(l)["date"] ELSE Val(r)["date"])
           ELSE IF c \in ColSet(left) THEN (IF l /= <<>> THEN Val(l)[c] ELSE None)
           ELSE LET k == CHOOSE i \in 1..Len(rc) : JoinedName(left, rc[i]) = c
                IN IF r /= <<>> THEN Val(r)[rc[k]] ELSE None]

RECURSIVE Flatten(_)
Flatten(ss) == IF ss = <<>> THEN <<>> ELSE ss[1] \o Flatten(Tail(ss))

\* A mutant: only the keys present in both tables are kept (an inner join).
OuterJoinRowsInner(left, right) ==
    Flatten([i \in 1..Len(left.rows) |->
        LET matches == SelectSeq(right.rows, LAMBDA r : KeysMatch(left.rows[i], r))
        IN [m \in 1..Len(matches) |->
               JoinedRow(left, right, Some(left.rows[i]), Some(matches[m]))]])

\* The rows of the outer join: every left row with each right row of its
\* key (or alone), then the right rows no left row matches.
OuterJoinRows(left, right) ==
    Flatten([i \in 1..Len(left.rows) |->
        LET matches == SelectSeq(right.rows, LAMBDA r : KeysMatch(left.rows[i], r))
        IN IF matches = <<>> THEN <<JoinedRow(left, right, Some(left.rows[i]), None)>>
           ELSE [m \in 1..Len(matches) |->
                    JoinedRow(left, right, Some(left.rows[i]), Some(matches[m]))]])
    \o
    LET alone == SelectSeq(right.rows,
                     LAMBDA r : \A i \in 1..Len(left.rows) : ~KeysMatch(left.rows[i], r))
    IN [m \in 1..Len(alone) |-> JoinedRow(left, right, None, Some(alone[m]))]

\* The join raises when two columns of the result would share a name.
OuterCoalesceJoin(left, right) ==
    IF HasDuplicates(JoinedColumns(left, right)) THEN Raised("DuplicateError")
    ELSE Returned(Table(JoinedColumns(left, right), OuterJoinRows(left, right)))

\* ft.reduce(lambda left, right: left.join(right, ...), dfs), from acc on.
RECURSIVE ReduceJoin(_, _)
ReduceJoin(acc, rest) ==
    IF rest = <<>> \/ acc.kind = "raise" THEN acc
    ELSE ReduceJoin(OuterCoalesceJoin(acc.table, rest[1]), Tail(rest))

\* ft.reduce(...).sort(by="date"): reduce of an empty list raises TypeError,
\* a single table is returned as it is, and the result is sorted.
JoinAll(dfs) ==
    IF dfs = <<>> THEN {Raised("TypeError")}
    ELSE LET joined == ReduceJoin(Returned(dfs[1]), Tail(dfs))
         IN IF joined.kind = "raise" THEN {joined}
            ELSE {Returned(Table(joined.table.columns, rows))
                  : rows \in SortArrangements(joined.table.rows, "date")}

-----------------------------------------------------------------------------
(* FredAPI.full_dataframe *)

Digits == <<"0", "1", "2", "3", "4", "5", "6", "7", "8", "9">>
IsDigit(c) == \E d \in 1..10 : Digits[d] = c
DigitValue(c) == (CHOOSE d \in 1..10 : Digits[d] = c) - 1

\* The regex "." matches any one character but a line break.
RegexDotMatches(c) == c /= "\n"

\* pl.col("value").str.replace(".", 0): literal defaults to False, so "." is
\* a regular expression, and n to 1: the first match is replaced. The value 0
\* becomes the text "0".
StrReplace(s) ==
    IF \E i \in 1..Len(s) : RegexDotMatches(s[i])
    THEN LET i == CHOOSE k \in 1..Len(s) :
                      RegexDotMatches(s[k]) /\ \A j \in 1..(k - 1) : ~RegexDotMatches(s[j])
         IN SubSeq(s, 1, i - 1) \o <<"0">> \o SubSeq(s, i + 1, Len(s))
    ELSE s

RECURSIVE Pow10(_)
Pow10(n) == IF n = 0 THEN 1 ELSE 10 * Pow10(n - 1)

RECURSIVE DigitsToInt(_)
DigitsToInt(s) ==
    IF s = <<>> THEN 0 ELSE 10 * DigitsToInt(SubSeq(s, 1, Len(s) - 1)) + DigitValue(s[Len(s)])

\* The float grammar of the cast:
\*   [sign] (inf | infinity | nan)                      in any letter case
\*   [sign] (digits [. [digits]] | . digits) [(e | E) [sign] digits]
IsSign(c) == c = "+" \/ c = "-"
Unsigned(s) == IF s /= <<>> /\ IsSign(s[1]) THEN Tail(s) ELSE s
IsNegative(s) == s /= <<>> /\ s[1] = "-"

LowerCase(c) ==
    CASE c = "I" -> "i" [] c = "N" -> "n" [] c = "F" -> "f" [] c = "T" -> "t"
      [] c = "Y" -> "y" [] c = "A" -> "a" [] OTHER -> c
Lowered(s) == [i \in 1..Len(s) |-> LowerCase(s[i])]

IsInfinityText(u) ==
    Lowered(u) \in {<<"i", "n", "f">>, <<"i", "n", "f", "i", "n", "i", "t", "y">>}
IsNanText(u) == Lowered(u) = <<"n", "a", "n">>

\* The places of an exponent mark; the first one ends the mantissa.
ExponentMarks(u) == {i \in 1..Len(u) : u[i] = "e" \/ u[i] = "E"}
FirstMark(u) == CHOOSE i \in ExponentMarks(u) : \A j \in ExponentMarks(u) : i <= j
Mantissa(u) == IF ExponentMarks(u) = {} THEN u ELSE SubSeq(u, 1, FirstMark(u) - 1)
ExponentText(u) ==
    IF ExponentMarks(u) = {} THEN <<>> ELSE SubSeq(u, FirstMark(u) + 1, Len(u))

\* A mantissa: digits with at most one ".", at least one digit.
IsMantissa(m) ==
    /\ \A i \in 1..Len(m) : IsDigit(m[i]) \/ m[i] = "."
    /\ Cardinality({i \in 1..Len(m) : m[i] = "."}) <= 1
    /\ \E i \in 1..Len(m) : IsDigit(m[i])

\* An exponent: an optional sign and at least one digit, digits only.
IsExponent(x) ==
    /\ Unsigned(x) /= <<>>
    /\ \A i \in 1..Len(Unsigned(x)) : IsDigit(Unsigned(x)[i])

\* A text the cast parses as a number.
IsNumeral(s) ==
    LET u == Unsigned(s)
    IN \/ IsInfinityText(u)
       \/ IsNanText(u)
       \/ /\ IsMantissa(Mantissa(u))
          /\ ExponentMarks(u) = {} \/ IsExponent(ExponentText(u))

MantissaValue(m) ==
    LET dots == {i \in 1..Len(m) : m[i] = "."}
        decimals == IF dots = {} THEN 0 ELSE Len(m) - (CHOOSE i \in dots : TRUE)
    IN Frac(DigitsToInt(SelectSeq(m, IsDigit)), Pow10(decimals))

\* The scale 10^exponent of an exponent text (1 without one).
ExponentScale(x) ==
    IF x = <<>> THEN Num(1)
    ELSE IF IsNegative(x) THEN Frac(1, Pow10(DigitsToInt(Unsigned(x))))
    ELSE Num(Pow10(DigitsToInt(Unsigned(x))))

\* The number a numeral denotes. The values that are no fraction are held
\* with a zero denominator: <<1, 0>> is inf, <<-1, 0>> is -inf, <<0, 0>> nan.
NumeralValue(s) ==
    LET u == Unsigned(s)
        sign == IF IsNegative(s) THEN -1 ELSE 1
    IN IF IsNanText(u) THEN <<0, 0>>
       ELSE IF IsInfinityText(u) THEN <<sign, 0>>
       ELSE FMul(Num(sign), FMul(MantissaValue(Mantissa(u)), ExponentScale(ExponentText(u))))

\* .cast(pl.Float32) of a text cell is strict: a text that is no number
\* fails the cast of the whole column.
CastFails(c) == ~IsNull(c) /\ ~IsNumeral(Val(c))
CastFloat(c) == IF IsNull(c) THEN None ELSE Some(NumeralValue(Val(c)))

\* The text the cast is given: the value after str.replace.
ReplacedValue(c) == IF IsNull(c) THEN None ELSE Some(StrReplace(Val(c)))

\* .str.to_date("%Y-%m-%d"): the text is held by its year, month and day
\* fields, which become the date.
ToDateYMD(c) == IF IsNull(c) THEN None ELSE Some(<<Val(c)[1], Val(c)[2], Val(c)[3]>>)

\* One pass of the loop of full_dataframe: the table of a series, its value
\* column cleaned and renamed to the series' title.
SeriesTable(series) ==
    LET obs == series.observations
    IN IF \E i \in 1..Len(obs) : CastFails(ReplacedValue(Some(obs[i].value)))
       THEN Raised("ComputeError")
       ELSE Returned(Table(<<"date", series.title>>,
                [i \in 1..Len(obs) |->
                    [c \in {"date", series.title} |->
                        IF c = "date" THEN ToDateYMD(Some(obs[i].date))
                        ELSE CastFloat(ReplacedValue(Some(obs[i].value)))]]))

\* The outcomes of full_dataframe(series_id_list), given what the provider
\* answers for each series.
full_dataframe(responses) ==
    LET dfs == [i \in 1..Len(responses) |-> SeriesTable(responses[i])]
    IN IF \E i \in 1..Len(dfs) : dfs[i].kind = "raise"
       THEN {dfs[CHOOSE i \in 1..Len(dfs) :
                    dfs[i].kind = "raise" /\ \A j \in 1..(i - 1) : dfs[j].kind = "ok"]}
       ELSE JoinAll([i \in 1..Len(dfs) |-> dfs[i].table])

-----------------------------------------------------------------------------
(* Specification of full_dataframe: one or two series, as the provider sends
   them: observations in ascending date order, one per date, each value a
   numeral or the missing-value sentinel "." *)

Sentinel == <<".">>
ValueTexts ==
    {Sentinel, <<"1", "2", "3", ".", "4">>, <<"0", ".", "5">>, <<"2", "0">>,
     <<"1", ".", "5", "e", "3">>}
ObservationDates == {<<2024, 1, d>> : d \in 1..MaxObservations}
Observations == {[date |-> d, value |-> v] : d \in ObservationDates, v \in ValueTexts}
ObservationLists ==
    {obs \in SeqsUpTo(Observations, MaxObservations) :
        \A i, j \in 1..Len(obs) : i < j => obs[i].date[3] < obs[j].date[3]}
Titles == {"DFF (Daily)", "CPIAUCSL (Monthly)"}
SeriesResponses == {[title |-> t, observations |-> o] : t \in Titles, o \in ObservationLists}

InitFred ==
    /\ call \in {[fn |-> "full_dataframe", responses |-> r]
                 : r \in {<<>>} \cup {<<a>> : a \in SeriesResponses}
                         \cup {<<a, b>> : a \in SeriesResponses, b \in SeriesResponses}}
    /\ ret = Pending

FullDataframe ==
    /\ call.fn = "full_dataframe"
    /\ ret = Pending
    /\ ret' \in full_dataframe(call.responses)
    /\ UNCHANGED call

NextFred == FullDataframe

SpecFred == InitFred /\ [][NextFred]_vars

-----------------------------------------------------------------------------
(* Specification of the join: the reduce-and-sort of full_dataframe,
   monthly_df and monthly_stock_dataframe on any list of tables keyed by
   unique dates in ascending order *)

JoinKeys == <<<<2024, 1, 1>>, <<2024, 2, 1>>>>
JoinValues == {Num(1), Num(2)}
JoinColumns == {"a", "b"}

\* The tables over the keys: each key absent or present with a value.
KeyedTables ==
    {Table(<<"date", c>>,
           LET kept == SelectSeq([k \in 1..Len(JoinKeys) |-> k], LAMBDA k : ~IsNull(f[k]))
           IN [n \in 1..Len(kept) |->
                  [x \in {"date", c} |->
                      IF x = "date" THEN Some(JoinKeys[kept[n]]) ELSE f[kept[n]]]])
     : c \in JoinColumns,
       f \in [1..Len(JoinKeys) -> {None} \cup {Some(v) : v \in JoinValues}]}

InitJoin ==
    /\ call \in {[fn |-> "join", dfs |-> d] : d \in SeqsUpTo(KeyedTables, MaxTables)}
    /\ ret = Pending

JoinTables ==
    /\ call.fn = "join"
    /\ ret = Pending
    /\ ret' \in JoinAll(call.dfs)
    /\ UNCHANGED call

NextJoin == JoinTables

SpecJoin == InitJoin /\ [][NextJoin]_vars

-----------------------------------------------------------------------------
(* YahooFinanceAPI.daily_stock_dataframe *)

DailyColumns == <<"date", "volume", "open", "close", "high", "low", "H-L", "C-O">>

\* A mutant: the operands are taken in the other order.
SubtractCellsReversed(a, b) ==
    IF IsNull(a) \/ IsNull(b) THEN None ELSE Some(FSub(Val(b), Val(a)))

\* pl.col(x) - pl.col(y): null when either operand is null.
SubtractCells(a, b) ==
    IF IsNull(a) \/ IsNull(b) THEN None ELSE Some(FSub(Val(a), Val(b)))

\* One record through with_columns (the date parsed, H-L and C-O added),
\* drop("date"), rename formatted_date to date, and select.
DailyRow(rec) ==
    LET parsed == [rec EXCEPT !["formatted_date"] = ToDateYMD(rec["formatted_date"])]
        derived == [c \in DOMAIN parsed \cup {"H-L", "C-O"} |->
                       CASE c = "H-L" -> SubtractCells(parsed["high"], parsed["low"])
                         [] c = "C-O" -> SubtractCells(parsed["close"], parsed["open"])
                         [] OTHER -> parsed[c]]
        dropped == [c \in DOMAIN derived \ {"date"} |-> derived[c]]
        renamed == [c \in (DOMAIN dropped \ {"formatted_date"}) \cup {"date"} |->
                       IF c = "date" THEN dropped["formatted_date"] ELSE dropped[c]]
    IN [c \in {DailyColumns[i] : i \in 1..Len(DailyColumns)} |-> renamed[c]]

\* The outcomes of daily_stock_dataframe(ticker), given the provider's price
\* records: a table without records has no column formatted_date, so the
\* first with_columns raises; otherwise the rows, sorted by date.
daily_stock_dataframe(prices) ==
    IF prices = <<>> THEN {Raised("ColumnNotFoundError")}
    ELSE {Returned(Table(DailyColumns, rows))
          : rows \in SortArrangements([i \in 1..Len(prices) |-> DailyRow(prices[i])], "date")}

-----------------------------------------------------------------------------
(* Specification of daily_stock_dataframe: up to MaxRecords price records on
   two days, each price and the volume present or missing *)

PriceRecords ==
    {[date |-> Some(Num(1704067200 + 86400 * (d - 1))),
      formatted_date |-> Some(<<2024, 1, d>>),
      high |-> h, low |-> l, open |-> o, close |-> c, volume |-> v,
      adjclose |-> c]
     : d \in {1, 2},
       h \in {None, Some(Num(13))}, l \in {None, Some(Num(10))},
       o \in {None, Some(Num(11))}, c \in {None, Some(Num(12))},
       v \in {None, Some(Num(500))}}

InitStock ==
    /\ call \in {[fn |-> "daily_stock_dataframe", prices |-> p]
                 : p \in SeqsUpTo(PriceRecords, MaxRecords)}
    /\ ret = Pending

DailyStockDataframe ==
    /\ call.fn = "daily_stock_dataframe"
    /\ ret = Pending
    /\ ret' \in daily_stock_dataframe(call.prices)
    /\ UNCHANGED call

NextStock == DailyStockDataframe

SpecStock == InitStock /\ [][NextStock]_vars

-----------------------------------------------------------------------------
(* Properties of day_to_month_column *)

AggCall == call.fn = "day_to_month_column"
AggReturned == AggCall /\ ret.kind = "ok"
InRows == call.df.rows
OutRows == ret.table.rows
YearMonth(d) == <<d[1], d[2]>>
AllMonths == {YearMonth(d) : d \in Dates}

\* The input rows of a month whose date and value are both present.
Usable(ym) ==
    {i \in 1..Len(InRows) :
        /\ ~IsNull(InRows[i]["date"])
        /\ ~IsNull(InRows[i][call.col_name])
        /\ YearMonth(Val(InRows[i]["date"])) = ym}

\* The output rows of a month.
OutOf(ym) ==
    {k \in 1..Len(OutRows) :
        /\ ~IsNull(OutRows[k]["date"])
        /\ YearMonth(Val(OutRows[k]["date"])) = ym}

Stat(k, prefix) == OutRows[k][prefix \o call.col_name]

\* C1: the monthly table has exactly one row for a month if and only if the
\* input has a row of that month with both date and value present; it has no
\* other row, and no row holds a null statistic. A call naming a column of
\* the table always returns.
C1_MonthsWithValues ==
    /\ (AggCall /\ call.col_name \in ColSet(call.df) /\ ret /= Pending) => ret.kind = "ok"
    /\ AggReturned =>
        /\ \A ym \in AllMonths :
              Cardinality(OutOf(ym)) = IF Usable(ym) = {} THEN 0 ELSE 1
        /\ \A k \in 1..Len(OutRows) :
              /\ \E ym \in AllMonths : k \in OutOf(ym)
              /\ \A i \in 1..Len(StatPrefixes) : ~IsNull(Stat(k, StatPrefixes[i]))

\* C1 witness: a returned table with one row, for an input holding a usable
\* row in one month, only a null value in the other, and a row without date.
C1_Witness ==
    /\ AggReturned
    /\ Len(OutRows) = 1
    /\ Usable(<<2024, 1>>) /= {}
    /\ \E i \in 1..Len(InRows) :
          InRows[i]["date"] = Some(<<2024, 2, 5>>) /\ IsNull(InRows[i]["value"])
    /\ \E i \in 1..Len(InRows) :
          IsNull(InRows[i]["date"]) /\ ~IsNull(InRows[i]["value"])

\* C2: in each output month, first_ is the value of a row of earliest date
\* among the month's rows that have a value and last_ the value of one of
\* latest date, whatever the order of the input rows; rows without a value
\* play no part.
C2_FirstLastChronological ==
    AggReturned =>
        \A ym \in AllMonths : \A k \in OutOf(ym) :
            /\ \E i \in Usable(ym) :
                  /\ \A j \in Usable(ym) :
                        DateLeq(Val(InRows[i]["date"]), Val(InRows[j]["date"]))
                  /\ Stat(k, "first_") = InRows[i][call.col_name]
            /\ \E i \in Usable(ym) :
                  /\ \A j \in Usable(ym) :
                        DateLeq(Val(InRows[j]["date"]), Val(InRows[i]["date"]))
                  /\ Stat(k, "last_") = InRows[i][call.col_name]

\* C2 witness: the January rows arrive latest first, the earliest January
\* row of all has no value, and first_ and last_ differ.
C2_Witness ==
    /\ AggReturned
    /\ Len(InRows) = 3
    /\ InRows[1]["date"] = Some(<<2024, 1, 20>>) /\ ~IsNull(InRows[1]["value"])
    /\ InRows[2]["date"] = Some(<<2024, 1, 5>>) /\ IsNull(InRows[2]["value"])
    /\ InRows[3]["date"] = Some(<<2024, 1, 15>>) /\ ~IsNull(InRows[3]["value"])
    /\ Len(OutRows) = 1
    /\ Stat(1, "first_") = InRows[3]["value"]
    /\ Stat(1, "last_") = InRows[1]["value"]
    /\ Stat(1, "first_") /= Stat(1, "last_")

\* The present values of a month's usable input rows, ascending.
MonthValues(ym) ==
    LET picked == SelectSeq([i \in 1..Len(InRows) |-> i], LAMBDA i : i \in Usable(ym))
    IN SortNumbers([n \in 1..Len(picked) |-> Val(InRows[picked[n]][call.col_name])])

JanuaryExample ==
    <<[date |-> Some(<<2024, 1, 5>>), value |-> Some(Num(10))],
      [date |-> Some(<<2024, 1, 20>>), value |-> Some(Num(30))],
      [date |-> Some(<<2024, 1, 15>>), value |-> Some(Num(20))]>>

\* C3 (as claimed): quantile_25_ and quantile_75_ are the linear-interpolation
\* quantiles at 0.25 and 0.75 of the month's values; the January example gives
\* first=10, last=30, min=10, max=30, mean=20, median=20, sum=60,
\* quantile_25=15 and quantile_75=25.
C3_LinearQuantiles ==
    AggReturned =>
        /\ \A ym \in AllMonths : \A k \in OutOf(ym) :
              /\ Stat(k, "quantile_25_") = Some(QuantileLinear(MonthValues(ym), 1, 4))
              /\ Stat(k, "quantile_75_") = Some(QuantileLinear(MonthValues(ym), 3, 4))
        /\ (InRows = JanuaryExample /\ call.col_name = "value") =>
              /\ Len(OutRows) = 1
              /\ Stat(1, "first_") = Some(Num(10))
              /\ Stat(1, "last_") = Some(Num(30))
              /\ Stat(1, "min_") = Some(Num(10))
              /\ Stat(1, "max_") = Some(Num(30))
              /\ Stat(1, "mean_") = Some(Num(20))
              /\ Stat(1, "median_") = Some(Num(20))
              /\ Stat(1, "sum_") = Some(Num(60))
              /\ Stat(1, "quantile_25_") = Some(Num(15))
              /\ Stat(1, "quantile_75_") = Some(Num(25))

\* C3, what the code computes on the January example: every statistic but the
\* two quantiles is as claimed, quantile_75 is 30 and quantile_25 is 10 or 20.
C3_JanuaryAsComputed ==
    (AggReturned /\ InRows = JanuaryExample) =>
        /\ Len(OutRows) = 1
        /\ Stat(1, "first_") = Some(Num(10))
        /\ Stat(1, "last_") = Some(Num(30))
        /\ Stat(1, "min_") = Some(Num(10))
        /\ Stat(1, "max_") = Some(Num(30))
        /\ Stat(1, "mean_") = Some(Num(20))
        /\ Stat(1, "median_") = Some(Num(20))
        /\ Stat(1, "sum_") = Some(Num(60))
        /\ Stat(1, "quantile_25_") \in {Some(Num(10)), Some(Num(20))}
        /\ Stat(1, "quantile_75_") = Some(Num(30))

\* C5: every output row has min <= quantile_25 <= median <= quantile_75 <= max.
C5_OrderedStatistics ==
    AggReturned =>
        \A k \in 1..Len(OutRows) :
            /\ FLeq(Val(Stat(k, "min_")), Val(Stat(k, "quantile_25_")))
            /\ FLeq(Val(Stat(k, "quantile_25_")), Val(Stat(k, "median_")))
            /\ FLeq(Val(Stat(k, "median_")), Val(Stat(k, "quantile_75_")))
            /\ FLeq(Val(Stat(k, "quantile_75_")), Val(Stat(k, "max_")))

\* C5 witness: a month of three rows with three distinct values, so that
\* the five statistics are not all equal.
C5_Witness ==
    /\ AggReturned
    /\ Cardinality(Usable(<<2024, 1>>)) = 3
    /\ \E k \in OutOf(<<2024, 1>>) :
          /\ Len(MonthValues(<<2024, 1>>)) = 3
          /\ FLt(Val(Stat(k, "min_")), Val(Stat(k, "median_")))
          /\ FLt(Val(Stat(k, "median_")), Val(Stat(k, "max_")))
          /\ FLt(Val(Stat(k, "min_")), Val(Stat(k, "quantile_75_")))

\* C6: a call whose col_name is no column of the table ends by raising the
\* column error to the caller, and no monthly table is returned.
C6_UnknownColumnRaises ==
    (AggCall /\ call.col_name \notin ColSet(call.df) /\ ret /= Pending) =>
        ret = Raised("ColumnNotFoundError")

\* C6 witness: the call on a non-empty table with an unknown column has ended.
C6_Witness ==
    /\ AggCall
    /\ call.col_name = "volume"
    /\ Len(InRows) > 0
    /\ ret.kind = "raise"

-----------------------------------------------------------------------------
(* Properties of full_dataframe *)

FredReturned == call.fn = "full_dataframe" /\ ret.kind = "ok"

\* The column of the wide table that holds series i: its title, or the title
\* with "_right" when an earlier series has the same title.
SeriesColumn(i) ==
    IF \E j \in 1..(i - 1) : call.responses[j].title = call.responses[i].title
    THEN call.responses[i].title \o "_right"
    ELSE call.responses[i].title

\* The cell of the wide table for observation n of series i.
SeriesCell(i, n) ==
    LET k == CHOOSE k \in 1..Len(ret.table.rows) :
                 ret.table.rows[k]["date"] = Some(call.responses[i].observations[n].date)
    IN ret.table.rows[k][SeriesColumn(i)]

\* C4 (as claimed): an observation whose value is the sentinel "." is a null
\* cell of the resulting table.
C4_SentinelIsNull ==
    FredReturned =>
        \A i \in 1..Len(call.responses) :
            \A n \in 1..Len(call.responses[i].observations) :
                call.responses[i].observations[n].value = Sentinel
                    => IsNull(SeriesCell(i, n))

\* C10 (as claimed): an observation whose value is a numeral other than the
\* sentinel is held as the number the numeral denotes.
C10_NumeralsKeepValue ==
    FredReturned =>
        \A i \in 1..Len(call.responses) :
            \A n \in 1..Len(call.responses[i].observations) :
                call.responses[i].observations[n].value /= Sentinel
                    => SeriesCell(i, n) =
                           Some(NumeralValue(call.responses[i].observations[n].value))

-----------------------------------------------------------------------------
(* Properties of the join *)

JoinCall == call.fn = "join"
JoinReturned == JoinCall /\ ret.kind = "ok"
SelfJoin == JoinCall /\ Len(call.dfs) = 2 /\ call.dfs[1] = call.dfs[2]

RowSet(t) == {t.rows[i] : i \in 1..Len(t.rows)}
KeySet(t) == {t.rows[i]["date"] : i \in 1..Len(t.rows)}
UniqueKeys(t) == Cardinality(KeySet(t)) = Len(t.rows)

\* C7 (as claimed): joining a table A with itself yields A unchanged: the
\* same columns, the same rows, the same values.
C7_SelfJoinUnchanged ==
    (SelfJoin /\ ret /= Pending) =>
        /\ ret.kind = "ok"
        /\ ColSet(ret.table) = ColSet(call.dfs[1])
        /\ Len(ret.table.rows) = Len(call.dfs[1].rows)
        /\ RowSet(ret.table) = RowSet(call.dfs[1])

\* C7 (amended): joining a table A of unique keys with itself returns A's
\* rows and A's columns unchanged and, after them, a copy of every non-key
\* column c under the name c_right.
C7_SelfJoinAddsRightCopies ==
    (SelfJoin /\ ret /= Pending) =>
        LET A == call.dfs[1]
            vc == ValueColumns(A)
        IN /\ ret.kind = "ok"
           /\ ret.table.columns = A.columns \o [i \in 1..Len(vc) |-> vc[i] \o "_right"]
           /\ Len(ret.table.rows) = Len(A.rows)
           /\ \A i \in 1..Len(A.rows) : \E k \in 1..Len(ret.table.rows) :
                 \A c \in ColSet(A) :
                    /\ ret.table.rows[k][c] = A.rows[i][c]
                    /\ c /= "date" => ret.table.rows[k][c \o "_right"] = A.rows[i][c]

\* C7 witness: a table of two rows has been joined with itself.
C7_Witness ==
    /\ SelfJoin
    /\ ret.kind = "ok"
    /\ Len(call.dfs[1].rows) = 2
    /\ Len(ret.table.rows) = 2

\* C9: the wide table has one date column, its keys are the union of the keys
\* of the tables joined, and it has one row per key when each of the tables
\* has unique keys, for any number and order of tables.
C9_KeysAreUnion ==
    JoinReturned =>
        LET keys == UNION {KeySet(call.dfs[i]) : i \in 1..Len(call.dfs)}
            cols == ret.table.columns
        IN /\ Cardinality({i \in 1..Len(cols) : cols[i] = "date"}) = 1
           /\ \A i \in 1..Len(cols) : cols[i] /= "date_right"
           /\ KeySet(ret.table) = keys
           /\ (\A i \in 1..Len(call.dfs) : UniqueKeys(call.dfs[i]))
                 => Len(ret.table.rows) = Cardinality(keys)

\* C9 witness: three tables joined, the first holding only the later key,
\* another only the earlier one, the result holding both.
C9_Witness ==
    /\ JoinReturned
    /\ Len(call.dfs) = 3
    /\ KeySet(call.dfs[1]) = {Some(JoinKeys[2])}
    /\ KeySet(call.dfs[2]) = {Some(JoinKeys[1])}
    /\ KeySet(call.dfs[3]) = {}
    /\ Len(ret.table.rows) = 2
    /\ ret.table.rows[1]["date"] = Some(JoinKeys[1])

-----------------------------------------------------------------------------
(* Properties of daily_stock_dataframe *)

StockCall == call.fn = "daily_stock_dataframe"
StockReturned == StockCall /\ ret.kind = "ok"

\* The row the claim describes for a raw record.
ExpectedDailyRow(rec) ==
    [c \in {"date", "volume", "open", "close", "high", "low", "H-L", "C-O"} |->
        CASE c = "date" -> rec["formatted_date"]
          [] c = "H-L" ->
                IF IsNull(rec["high"]) \/ IsNull(rec["low"]) THEN None
                ELSE Some(FSub(Val(rec["high"]), Val(rec["low"])))
          [] c = "C-O" ->
                IF IsNull(rec["close"]) \/ IsNull(rec["open"]) THEN None
                ELSE Some(FSub(Val(rec["close"]), Val(rec["open"])))
          [] OTHER -> rec[c]]

\* C8: the daily table has exactly one row per raw price record, none
\* filtered out: H-L is high - low, or null when high or low is missing,
\* C-O is close - open, or null when close or open is missing, the other
\* cells are the record's; the columns are date, volume, open, close, high,
\* low, H-L, C-O and the rows ascend by date. A call with at least one
\* record always returns.
C8_OneRowPerRecord ==
    /\ (StockCall /\ call.prices /= <<>> /\ ret /= Pending) => ret.kind = "ok"
    /\ StockReturned =>
        LET out == ret.table.rows
            expected == [i \in 1..Len(call.prices) |-> ExpectedDailyRow(call.prices[i])]
        IN /\ ret.table.columns =
                 <<"date", "volume", "open", "close", "high", "low", "H-L", "C-O">>
           /\ Len(out) = Len(call.prices)
           /\ \A i \in 1..Len(expected) :
                 Cardinality({k \in 1..Len(out) : out[k] = expected[i]})
                     = Cardinality({j \in 1..Len(expected) : expected[j] = expected[i]})
           /\ \A k \in 1..(Len(out) - 1) :
                 DateLeq(Val(out[k]["date"]), Val(out[k + 1]["date"]))

\* C8 witness: two records, the later day first; one lacks high, the other
\* lacks open and volume, and both rows are in the table, in date order.
C8_Witness ==
    /\ StockReturned
    /\ Len(call.prices) = 2
    /\ call.prices[1]["formatted_date"] = Some(<<2024, 1, 2>>)
    /\ call.prices[2]["formatted_date"] = Some(<<2024, 1, 1>>)
    /\ IsNull(call.prices[1]["high"]) /\ ~IsNull(call.prices[1]["low"])
    /\ ~IsNull(call.prices[1]["open"]) /\ ~IsNull(call.prices[1]["close"])
    /\ IsNull(call.prices[2]["open"]) /\ IsNull(call.prices[2]["volume"])
    /\ ~IsNull(call.prices[2]["high"]) /\ ~IsNull(call.prices[2]["low"])
    /\ Len(ret.table.rows) = 2
    /\ ret.table.rows[1]["H-L"] = Some(Num(3)) /\ IsNull(ret.table.rows[1]["C-O"])
    /\ IsNull(ret.table.rows[2]["H-L"]) /\ ret.table.rows[2]["C-O"] = Some(Num(1))

====
